---- MODULE Spec2Model ----
(***************************************************************************)
(* Model of src/cursor_align_addon.py, the "Cursor & Origin Alignment      *)
(* Tools" add-on for Blender 4.5.                                          *)
(*                                                                         *)
(* The add-on has two halves that write disjoint state:                    *)
(*   - the registration half (register, unregister, the pie keymap, the    *)
(*     snap-menu draw callback, the patch of the MACHIN3tools cursor pie)  *)
(*     together with the preferences the user edits;    specification Spec *)
(*   - the operators, which act on the scene (cursor, objects) and only    *)
(*     read the preferences;                         specification SpecOps *)
(* register_keymap_pie is also exercised on its own, with every input it   *)
(* can be called with;                            specification SpecKeymap *)
(*                                                                         *)
(* Units.  Angles in degrees are counted in tenths of a degree (the        *)
(* minimum of custom_step is 0.1).  Angles in radians are counted in units *)
(* of pi/3600, so that radians() is the exact map d |-> 2*d and pi = 3600. *)
(***************************************************************************)
EXTENDS Integers, Sequences, FiniteSets

VARIABLES
    registered_classes,   \* classes of `classes` known to bpy.utils
    scene_prop,           \* bpy.types.Scene.cursor_align_props is defined
    props,                \* the scene's CursorAlignProperties values
    machine_tools_enabled,\* MACHIN3tools is installed and enabled
    cursor_pie_registered,\* bpy.types.MACHIN3_MT_cursor_pie exists
    cursor_pie_draw,      \* MACHIN3_MT_cursor_pie.draw
    cursor_pie_original,  \* MACHIN3_MT_cursor_pie._original_draw_cursor_align
    snap_draw_funcs,      \* times draw_snap_menu is in VIEW3D_MT_snap's draw list
    kc_addon,             \* wm.keyconfigs.addon is not None
    keymap_items,         \* items of the add-on keyconfig's '3D View' keymap
    kmi_id,               \* that keymap's item id counter
    addon_keymaps,        \* the module's addon_keymaps list
    cursor,               \* scene.cursor: location and rotation_euler
    objects,              \* each object's location and rotation_euler
    selected,             \* context.selected_objects
    active,               \* context.active_object, or None
    mode,                 \* context.mode
    face_normals,         \* normals of the selected faces of the edit mesh
    view_rotation,        \* rotation of the 3D view's window region, or None
    view_location,        \* the point the 3D view is centred on, or None
    integrations,         \* history: integrate_... calls that returned True
    restores,             \* history: remove_... calls that restored draw
    calls,                \* history: calls made into the add-on so far
    last_call,            \* the last call made into the add-on, with its inputs
    result                \* what that call returned, reported and called

vars == <<registered_classes, scene_prop, props, machine_tools_enabled,
          cursor_pie_registered, cursor_pie_draw, cursor_pie_original,
          snap_draw_funcs, kc_addon, keymap_items, kmi_id, addon_keymaps,
          cursor, objects, selected, active, mode, face_normals,
          view_rotation, view_location, integrations, restores, calls,
          last_call, result>>

registration_vars ==
    <<registered_classes, scene_prop, machine_tools_enabled,
      cursor_pie_registered, cursor_pie_draw, cursor_pie_original,
      snap_draw_funcs, kc_addon, keymap_items, kmi_id, addon_keymaps,
      integrations, restores>>

scene_vars ==
    <<cursor, objects, selected, active, mode, face_normals, view_rotation,
      view_location>>

-----------------------------------------------------------------------------
(* Bounds of the model *)

\* register() and unregister() are called at most this many times in Spec
MaxLifecycleCalls == 4

\* at most this many operators are executed in SpecOps
MaxOps == 2

\* register_keymap_pie() is called at most this many times in SpecKeymap
MaxKeymapCalls == 3

-----------------------------------------------------------------------------
(* CursorAlignProperties, lines 59-102 *)

step_items == {"90", "45", "30", "15", "CUSTOM"}

pie_menu_key_items == {"ALT", "CTRL", "SHIFT", "NONE"}

\* custom_step: FloatProperty(min=0.1, max=360.0), in tenths of a degree
custom_step_min == 1

custom_step_max == 3600

custom_step_default == 225

\* values of custom_step the model draws from: both ends of the range and
\* the default
CustomSteps == {custom_step_min, custom_step_default, custom_step_max}

\* values a script may assign to custom_step, inside and outside its range
CustomStepInputs == CustomSteps \cup {-900, 0, 7200}

\* FloatProperty(min=0.1, max=360.0): the host clamps an assigned value to
\* the hard limits of the property
clamp_custom_step(value) ==
    IF value < custom_step_min THEN custom_step_min
    ELSE IF value > custom_step_max THEN custom_step_max
    ELSE value

CursorAlignProperties ==
    [rotation_step : step_items,
     custom_step   : CustomSteps,
     use_snap_menu : BOOLEAN,
     use_pie_menu  : BOOLEAN,
     pie_menu_key  : pie_menu_key_items]

PropertyDefaults ==
    [rotation_step |-> "90",
     custom_step   |-> custom_step_default,
     use_snap_menu |-> TRUE,
     use_pie_menu  |-> FALSE,
     pie_menu_key  |-> "ALT"]

\* the tuple `classes`, lines 1187-1214
classes ==
    {"CursorAlignProperties", "CURSOR_OT_reset_orientation",
     "CURSOR_OT_rotate_axis", "CURSOR_OT_flip_axis",
     "CURSOR_OT_copy_from_object", "CURSOR_OT_apply_to_object",
     "CURSOR_OT_align_to_view", "CURSOR_OT_align_to_surface",
     "CURSOR_OT_set_preset_orientation", "CURSOR_OT_set_to_selection_center",
     "CURSOR_OT_set_to_view_center", "CURSOR_OT_machine_tools_menu",
     "OBJECT_OT_origin_to_cursor", "OBJECT_OT_rotate_axis",
     "OBJECT_OT_reset_orientation", "OBJECT_OT_align_to_cursor",
     "OBJECT_OT_snap_cursor_to_selected", "OBJECT_OT_snap_selected_to_cursor",
     "OBJECT_OT_create_transform_orientation",
     "OBJECT_OT_align_objects_to_each_other",
     "OBJECT_OT_distribute_along_cursor", "OBJECT_OT_copy_cursor_location",
     "VIEW3D_PT_cursor_align", "VIEW3D_MT_cursor_origin_wheel",
     "VIEW3D_MT_cursor_align_machine_tools", "CursorAlignAddonPreferences"}

Registered == registered_classes = classes

-----------------------------------------------------------------------------
(* Machine Tools detection and the patch of its cursor pie, lines 119-215 *)

\* the draw method MACHIN3tools defines on MACHIN3_MT_cursor_pie
MachineToolsDraw == "MACHIN3_MT_cursor_pie.draw"

\* the closure enhanced_draw of lines 150-192
EnhancedDraw == "enhanced_draw"

\* hasattr(cursor_pie_class, '_original_draw_cursor_align') is false
Absent == "absent"

is_machine_tools_available == machine_tools_enabled

\* [draw, original, ok]: the class attributes after the call, and its result
integrate_drops_guard(present, draw, original) ==
    IF present
    THEN [draw |-> EnhancedDraw, original |-> draw, ok |-> TRUE]
    ELSE [draw |-> draw, original |-> original, ok |-> FALSE]

integrate_with_machine_tools_cursor_pie(present, draw, original) ==
    IF present
    THEN [draw     |-> EnhancedDraw,
          original |-> IF original = Absent THEN draw ELSE original,
          ok       |-> TRUE]
    ELSE [draw |-> draw, original |-> original, ok |-> FALSE]

\* [draw, original, ok]: ok when the draw method was restored
remove_machine_tools_integration(present, draw, original) ==
    IF present /\ original # Absent
    THEN [draw |-> original, original |-> Absent, ok |-> TRUE]
    ELSE [draw |-> draw, original |-> original, ok |-> FALSE]

-----------------------------------------------------------------------------
(* The pie keymap, lines 1217-1255 *)

pie_menu_idname == "VIEW3D_MT_cursor_origin_wheel"

\* keymap.keymap_items.new('wm.call_menu_pie', type='S', value='PRESS', <mod>=True)
\* followed by keymap_item.properties.name = VIEW3D_MT_cursor_origin_wheel.bl_idname
NewKeymapItem(id, modifier) ==
    [id     |-> id,
     idname |-> "wm.call_menu_pie",
     type   |-> "S",
     value  |-> "PRESS",
     shift  |-> (modifier = "SHIFT"),
     ctrl   |-> (modifier = "CTRL"),
     alt    |-> (modifier = "ALT"),
     name   |-> pie_menu_idname]

\* [items, id, akm]: the keymap's items, its id counter and addon_keymaps
\* after the call.  kc: keyconfigs.addon is not None; readable: reading
\* bpy.context.scene.cursor_align_props does not raise.
register_keymap_pie_forgets_handle(kc, readable, p, items, id, akm) ==
    LET key_modifier == IF readable THEN p.pie_menu_key ELSE "ALT"
    IN  IF kc /\ key_modifier \in {"SHIFT", "CTRL", "ALT"}
        THEN [items |-> Append(items, NewKeymapItem(id + 1, key_modifier)),
              id    |-> id + 1,
              akm   |-> akm]
        ELSE [items |-> items, id |-> id, akm |-> akm]

register_keymap_pie(kc, readable, p, items, id, akm) ==
    IF ~kc
    THEN [items |-> items, id |-> id, akm |-> akm]
    ELSE LET key_modifier == IF readable THEN p.pie_menu_key ELSE "ALT"
         IN  IF key_modifier \in {"SHIFT", "CTRL", "ALT"}
             THEN [items |-> Append(items, NewKeymapItem(id + 1, key_modifier)),
                   id    |-> id + 1,
                   akm   |-> Append(akm, [km |-> "3D View", kmi |-> id + 1])]
             ELSE [items |-> items, id |-> id, akm |-> akm]

unregister_keymap_pie_clears_only(items, akm) ==
    [items |-> items, akm |-> << >>]

\* km.keymap_items.remove(kmi) for every handle, then addon_keymaps.clear()
unregister_keymap_pie(items, akm) ==
    [items |-> SelectSeq(items,
                  LAMBDA it : \A i \in 1..Len(akm) : akm[i].kmi # it.id),
     akm   |-> << >>]

-----------------------------------------------------------------------------
(* The snap menu, lines 936-943 and 1258-1266 *)

\* VIEW3D_MT_snap.append(draw_snap_menu)
register_menu_draw(n) == n + 1

\* VIEW3D_MT_snap.remove(draw_snap_menu); a missing callback is ignored
unregister_menu_draw(n) == IF n > 0 THEN n - 1 ELSE n

\* draw_snap_menu draws its entries: it is called once per occurrence in
\* the menu's draw list and returns at once when Machine Tools is available
draw_snap_menu == snap_draw_funcs > 0 /\ ~is_machine_tools_available

\* a key binding that opens the pie menu exists in the host keymap
PieBindings == {i \in 1..Len(keymap_items) :
                    keymap_items[i].name = pie_menu_idname}

-----------------------------------------------------------------------------
(* The scene *)

None == "None"

Objects == {"Cube", "Lamp"}

Zero3 == <<0, 0, 0>>

NoCall == [name |-> "none"]

NoResult == [ret |-> None, reports |-> {}, host_ops |-> << >>]

\* the scene a new file opens with: nothing selected, Object Mode
DefaultScene ==
    /\ cursor = [location |-> Zero3, rotation_euler |-> Zero3]
    /\ objects = [o \in Objects |->
                    [location |-> IF o = "Cube" THEN Zero3 ELSE <<4, 2, 6>>,
                     rotation_euler |-> Zero3]]
    /\ selected = {}
    /\ active = None
    /\ mode = "OBJECT"
    /\ face_normals = << >>
    /\ view_rotation = Zero3
    /\ view_location = Zero3

-----------------------------------------------------------------------------
(* Angles and vectors *)

\* pi, in units of pi/3600
Pi == 3600

\* math.radians on an angle given in tenths of a degree
radians(angle_deg) == 2 * angle_deg

\* float() of a preset of step_items, in tenths of a degree
float(rotation_step) ==
    CASE rotation_step = "90" -> 900
      [] rotation_step = "45" -> 450
      [] rotation_step = "30" -> 300
      [] rotation_step = "15" -> 150

get_step_always_custom(p) == radians(p.custom_step)

get_step(p) ==
    LET angle_deg == IF p.rotation_step = "CUSTOM"
                     THEN p.custom_step
                     ELSE float(p.rotation_step)
    IN  radians(angle_deg)

Axes == {"X", "Y", "Z"}

Directions == {"POS", "NEG"}

AxisIndex(axis) == CASE axis = "X" -> 1 [] axis = "Y" -> 2 [] axis = "Z" -> 3

Abs(a) == IF a < 0 THEN -a ELSE a

Add3(u, v) == <<u[1] + v[1], u[2] + v[2], u[3] + v[3]>>

Sub3(u, v) == <<u[1] - v[1], u[2] - v[2], u[3] - v[3]>>

RECURSIVE Sum3(_, _)
\* the sum of the vectors f[x], x in S
Sum3(f, S) ==
    IF S = {} THEN Zero3
    ELSE LET x == CHOOSE y \in S : TRUE
         IN  Add3(f[x], Sum3(f, S \ {x}))

\* an angle brought into (-pi, pi]
WrapAngle(a) == ((a + Pi - 1) % (2 * Pi)) - Pi + 1

\* The host's Matrix.to_euler('XYZ') of the rotation matrix of an Euler: of
\* the two Euler triples of that rotation with angles in (-pi, pi], the one
\* with the smaller sum of absolute values; at y = +-pi/2 (gimbal lock) z is
\* 0 and x takes the combined turn.
to_euler(euler) ==
    LET x == WrapAngle(euler[1])
        y == WrapAngle(euler[2])
        z == WrapAngle(euler[3])
        flipped == <<WrapAngle(x + Pi), WrapAngle(Pi - y), WrapAngle(z + Pi)>>
        eul1 == IF 2 * Abs(y) < Pi THEN <<x, y, z>> ELSE flipped
        eul2 == IF 2 * Abs(y) < Pi THEN flipped ELSE <<x, y, z>>
    IN  IF 2 * Abs(y) = Pi
        THEN <<IF y > 0 THEN WrapAngle(x - z) ELSE WrapAngle(x + z), y, 0>>
        ELSE IF Abs(eul1[1]) + Abs(eul1[2]) + Abs(eul1[3])
                  > Abs(eul2[1]) + Abs(eul2[2]) + Abs(eul2[3])
             THEN eul2
             ELSE eul1

\* Blender 4.5's mathutils.Euler defines copy, freeze, make_compatible,
\* rotate, rotate_axis, to_matrix, to_quaternion and zero.  It has neither
\* normalized (line 240) nor to_matrix_4x4 (line 745): reading either raises
\* AttributeError.
EulerHasNormalized == FALSE

EulerHasToMatrix4x4 == FALSE

\* The bmesh module defines new, from_edit_mesh and update_edit_mesh;
\* from_mesh is a method of a BMesh, so bmesh.from_mesh (line 417) raises
\* AttributeError.
BmeshHasFromMesh == FALSE

\* what Euler.normalized would return if the host had it: every angle
\* within [-pi, pi], as the comment of line 240 expects
normalized(euler) ==
    <<WrapAngle(euler[1]), WrapAngle(euler[2]), WrapAngle(euler[3])>>

\* [raised, value]: raised when the call raises instead of returning
rotate_euler(euler, axis, delta) ==
    LET new_eul == [euler EXCEPT ![AxisIndex(axis)] = @ + delta]
    IN  IF EulerHasNormalized
        THEN [raised |-> FALSE, value |-> normalized(new_eul)]
        ELSE [raised |-> TRUE, value |-> euler]

\* objects have no parent and unit scale: matrix_world holds the object's
\* location and the rotation of its rotation_euler
copy_object_rotation_to_cursor(obj, cur) ==
    [cur EXCEPT !.rotation_euler = to_euler(obj.rotation_euler)]

apply_cursor_rotation_to_object(cur, obj) ==
    [obj EXCEPT !.rotation_euler = to_euler(cur.rotation_euler)]

-----------------------------------------------------------------------------
(* Host operators called by the add-on *)

\* coordinates are counted in this many units per Blender unit, so that every
\* mean of two locations taken within MaxOps operators is exact
LocUnit == 2 ^ MaxOps

\* the median point of the selected objects
SelectionCenter(objs, sel) ==
    LET total == Sum3([o \in sel |-> objs[o].location], sel)
        count == Cardinality(sel)
    IN  <<total[1] \div count, total[2] \div count, total[3] \div count>>

\* bpy.ops.object.origin_set(type='ORIGIN_CURSOR') in Object Mode: the origin
\* of every selected object moves to the cursor
origin_set(objs, sel, cur) ==
    [o \in Objects |-> IF o \in sel
                       THEN [objs[o] EXCEPT !.location = cur.location]
                       ELSE objs[o]]

\* bpy.ops.view3d.snap_selected_to_cursor in Object Mode
snap_selected_to_cursor(objs, sel, cur, use_offset, use_rotation) ==
    LET offset == Sub3(cur.location, SelectionCenter(objs, sel))
    IN  [o \in Objects |->
            IF o \in sel
            THEN [location |-> IF use_offset
                               THEN Add3(objs[o].location, offset)
                               ELSE cur.location,
                  rotation_euler |-> IF use_rotation
                                     THEN to_euler(cur.rotation_euler)
                                     ELSE objs[o].rotation_euler]
            ELSE objs[o]]

-----------------------------------------------------------------------------
(* Registration, lines 1269-1313 *)

\* restricted: register() runs while bpy.context is the restricted context
\* of add-on loading, where reading bpy.context.scene raises AttributeError
register(restricted) ==
    /\ registered_classes = {}
    /\ calls < MaxLifecycleCalls
    /\ registered_classes' = classes
    /\ scene_prop' = TRUE
    /\ LET machine_tools_available == is_machine_tools_available
           pie == IF machine_tools_available
                  THEN integrate_with_machine_tools_cursor_pie(
                           cursor_pie_registered, cursor_pie_draw,
                           cursor_pie_original)
                  ELSE [draw |-> cursor_pie_draw,
                        original |-> cursor_pie_original, ok |-> FALSE]
           km == IF ~restricted /\ props.use_pie_menu
                 THEN register_keymap_pie(kc_addon, ~restricted, props,
                                          keymap_items, kmi_id, addon_keymaps)
                 ELSE [items |-> keymap_items, id |-> kmi_id,
                       akm |-> addon_keymaps]
       IN  /\ cursor_pie_draw' = pie.draw
           /\ cursor_pie_original' = pie.original
           /\ integrations' = IF pie.ok THEN integrations + 1 ELSE integrations
           /\ snap_draw_funcs' = IF machine_tools_available
                                 THEN snap_draw_funcs
                                 ELSE register_menu_draw(snap_draw_funcs)
           /\ keymap_items' = km.items
           /\ kmi_id' = km.id
           /\ addon_keymaps' = km.akm
    /\ calls' = calls + 1
    /\ last_call' = [name |-> "register", restricted |-> restricted]
    /\ result' = NoResult
    /\ UNCHANGED <<props, machine_tools_enabled, cursor_pie_registered,
                   kc_addon, restores>>
    /\ UNCHANGED scene_vars

unregister ==
    /\ Registered
    /\ calls < MaxLifecycleCalls
    /\ snap_draw_funcs' = unregister_menu_draw(snap_draw_funcs)
    /\ LET km == unregister_keymap_pie(keymap_items, addon_keymaps)
           pie == remove_machine_tools_integration(
                      cursor_pie_registered, cursor_pie_draw,
                      cursor_pie_original)
       IN  /\ keymap_items' = km.items
           /\ addon_keymaps' = km.akm
           /\ cursor_pie_draw' = pie.draw
           /\ cursor_pie_original' = pie.original
           /\ restores' = IF pie.ok THEN restores + 1 ELSE restores
    /\ scene_prop' = FALSE
    /\ registered_classes' = {}
    /\ calls' = calls + 1
    /\ last_call' = [name |-> "unregister"]
    /\ result' = NoResult
    /\ UNCHANGED <<props, machine_tools_enabled, cursor_pie_registered,
                   kc_addon, kmi_id, integrations>>
    /\ UNCHANGED scene_vars

-----------------------------------------------------------------------------
(* What the user does outside the add-on's own code *)

\* MACHIN3tools is enabled, with or without its cursor pie tool
MachineToolsEnable(with_pie) ==
    /\ ~machine_tools_enabled
    /\ machine_tools_enabled' = TRUE
    /\ cursor_pie_registered' = with_pie
    /\ UNCHANGED <<registered_classes, scene_prop, props, cursor_pie_draw,
                   cursor_pie_original, snap_draw_funcs, kc_addon,
                   keymap_items, kmi_id, addon_keymaps, integrations,
                   restores, calls, last_call, result>>
    /\ UNCHANGED scene_vars

\* MACHIN3tools is disabled: it unregisters its classes
MachineToolsDisable ==
    /\ machine_tools_enabled
    /\ machine_tools_enabled' = FALSE
    /\ cursor_pie_registered' = FALSE
    /\ UNCHANGED <<registered_classes, scene_prop, props, cursor_pie_draw,
                   cursor_pie_original, snap_draw_funcs, kc_addon,
                   keymap_items, kmi_id, addon_keymaps, integrations,
                   restores, calls, last_call, result>>
    /\ UNCHANGED scene_vars

\* the cursor pie tool is switched in the MACHIN3tools preferences
CursorPieToggle ==
    /\ machine_tools_enabled
    /\ cursor_pie_registered' = ~cursor_pie_registered
    /\ UNCHANGED <<registered_classes, scene_prop, props,
                   machine_tools_enabled, cursor_pie_draw,
                   cursor_pie_original, snap_draw_funcs, kc_addon,
                   keymap_items, kmi_id, addon_keymaps, integrations,
                   restores, calls, last_call, result>>
    /\ UNCHANGED scene_vars

\* CursorAlignAddonPreferences.draw, lines 1151-1160: the menu settings the
\* preferences page lets the user edit; pie_menu_key is shown only while
\* use_pie_menu is set
SetMenuPreference(field, value) ==
    /\ Registered /\ scene_prop
    /\ field = "pie_menu_key" => props.use_pie_menu
    /\ props[field] # value
    /\ props' = [props EXCEPT ![field] = value]
    /\ UNCHANGED <<calls, last_call, result>>
    /\ UNCHANGED registration_vars
    /\ UNCHANGED scene_vars

\* CursorAlignAddonPreferences.draw, lines 1147-1149 (and the panel, lines
\* 898-903): the rotation settings; the custom angle is shown only while the
\* step is CUSTOM
SetRotationPreference(field, value) ==
    /\ Registered /\ scene_prop
    /\ field = "custom_step" => props.rotation_step = "CUSTOM"
    /\ props[field] # value
    /\ props' = [props EXCEPT ![field] = value]
    /\ UNCHANGED <<calls, last_call, result>>
    /\ UNCHANGED registration_vars
    /\ UNCHANGED scene_vars

\* scene.cursor_align_props.custom_step = value, from a script or the Python
\* console: possible whatever rotation_step is
SetCustomStepByScript(value) ==
    /\ Registered /\ scene_prop
    /\ props.custom_step # clamp_custom_step(value)
    /\ props' = [props EXCEPT !.custom_step = clamp_custom_step(value)]
    /\ UNCHANGED <<calls, last_call, result>>
    /\ UNCHANGED registration_vars
    /\ UNCHANGED scene_vars

-----------------------------------------------------------------------------
(* Spec: registration and the preferences *)

Init ==
    /\ registered_classes = {}
    /\ scene_prop = FALSE
    /\ props \in {p \in CursorAlignProperties :
                     /\ p.rotation_step = PropertyDefaults.rotation_step
                     /\ p.custom_step = PropertyDefaults.custom_step}
    /\ machine_tools_enabled \in BOOLEAN
    /\ cursor_pie_registered \in {b \in BOOLEAN : b => machine_tools_enabled}
    /\ cursor_pie_draw = MachineToolsDraw
    /\ cursor_pie_original = Absent
    /\ snap_draw_funcs = 0
    /\ kc_addon \in BOOLEAN
    /\ keymap_items = << >>
    /\ kmi_id = 0
    /\ addon_keymaps = << >>
    /\ integrations = 0
    /\ restores = 0
    /\ calls = 0
    /\ last_call = NoCall
    /\ result = NoResult
    /\ DefaultScene

Next ==
    \/ \E restricted \in BOOLEAN : register(restricted)
    \/ unregister
    \/ \E with_pie \in BOOLEAN : MachineToolsEnable(with_pie)
    \/ MachineToolsDisable
    \/ CursorPieToggle
    \/ \E b \in BOOLEAN : SetMenuPreference("use_snap_menu", b)
    \/ \E b \in BOOLEAN : SetMenuPreference("use_pie_menu", b)
    \/ \E k \in pie_menu_key_items : SetMenuPreference("pie_menu_key", k)
    \/ \E step \in step_items : SetRotationPreference("rotation_step", step)
    \/ \E angle \in CustomSteps : SetRotationPreference("custom_step", angle)
    \/ \E value \in CustomStepInputs : SetCustomStepByScript(value)

Spec == Init /\ [][Next]_vars

-----------------------------------------------------------------------------
(* SpecKeymap: register_keymap_pie and unregister_keymap_pie called on their *)
(* own, with every input they can see                                       *)

register_keymap_pie_call(readable) ==
    /\ calls < MaxKeymapCalls
    /\ LET km == register_keymap_pie(kc_addon, readable, props, keymap_items,
                                     kmi_id, addon_keymaps)
       IN  /\ keymap_items' = km.items
           /\ kmi_id' = km.id
           /\ addon_keymaps' = km.akm
    /\ calls' = calls + 1
    /\ last_call' = [name |-> "register_keymap_pie", readable |-> readable]
    /\ result' = NoResult
    /\ UNCHANGED <<registered_classes, scene_prop, props,
                   machine_tools_enabled, cursor_pie_registered,
                   cursor_pie_draw, cursor_pie_original, snap_draw_funcs,
                   kc_addon, integrations, restores>>
    /\ UNCHANGED scene_vars

unregister_keymap_pie_call ==
    /\ calls < MaxKeymapCalls
    /\ LET km == unregister_keymap_pie(keymap_items, addon_keymaps)
       IN  /\ keymap_items' = km.items
           /\ addon_keymaps' = km.akm
    /\ calls' = calls + 1
    /\ last_call' = [name |-> "unregister_keymap_pie"]
    /\ result' = NoResult
    /\ UNCHANGED <<registered_classes, scene_prop, props,
                   machine_tools_enabled, cursor_pie_registered,
                   cursor_pie_draw, cursor_pie_original, snap_draw_funcs,
                   kc_addon, kmi_id, integrations, restores>>
    /\ UNCHANGED scene_vars

InitKeymap ==
    /\ registered_classes = classes
    /\ scene_prop = TRUE
    /\ props \in {p \in CursorAlignProperties :
                     /\ p.rotation_step = PropertyDefaults.rotation_step
                     /\ p.custom_step = PropertyDefaults.custom_step
                     /\ p.use_snap_menu = PropertyDefaults.use_snap_menu}
    /\ machine_tools_enabled = FALSE
    /\ cursor_pie_registered = FALSE
    /\ cursor_pie_draw = MachineToolsDraw
    /\ cursor_pie_original = Absent
    /\ snap_draw_funcs = 1
    /\ kc_addon \in BOOLEAN
    /\ keymap_items = << >>
    /\ kmi_id = 0
    /\ addon_keymaps = << >>
    /\ integrations = 0
    /\ restores = 0
    /\ calls = 0
    /\ last_call = NoCall
    /\ result = NoResult
    /\ DefaultScene

NextKeymap ==
    \/ \E readable \in BOOLEAN : register_keymap_pie_call(readable)
    \/ unregister_keymap_pie_call
    \/ \E k \in pie_menu_key_items : SetMenuPreference("pie_menu_key", k)

SpecKeymap == InitKeymap /\ [][NextKeymap]_vars

-----------------------------------------------------------------------------
(* Operators, lines 271-838.  Every execute() runs as one step.  ret is     *)
(* FINISHED or CANCELLED, or EXCEPTION when execute() raises: the host then  *)
(* reports the traceback as an ERROR and nothing the operator had not yet    *)
(* written is changed.                                                       *)

Executed(call, ret, reports, host_ops) ==
    /\ Registered /\ scene_prop
    /\ calls < MaxOps
    /\ calls' = calls + 1
    /\ last_call' = call
    /\ result' = [ret |-> ret, reports |-> reports, host_ops |-> host_ops]
    /\ UNCHANGED props
    /\ UNCHANGED registration_vars

Cancelled(call) ==
    /\ Executed(call, "CANCELLED", {"WARNING"}, << >>)
    /\ UNCHANGED scene_vars

Raised(call, reports, host_ops) ==
    /\ Executed(call, "EXCEPTION", reports \cup {"ERROR"}, host_ops)
    /\ UNCHANGED scene_vars

CURSOR_OT_reset_orientation_keeps_y ==
    /\ Executed([name |-> "cursor.reset_orientation"], "FINISHED", {}, << >>)
    /\ cursor' = [cursor EXCEPT !.rotation_euler =
                     <<0, cursor.rotation_euler[2], 0>>]
    /\ UNCHANGED <<objects, selected, active, mode, face_normals,
                   view_rotation, view_location>>

CURSOR_OT_reset_orientation ==
    /\ Executed([name |-> "cursor.reset_orientation"], "FINISHED", {}, << >>)
    /\ cursor' = [cursor EXCEPT !.rotation_euler = Zero3]
    /\ UNCHANGED <<objects, selected, active, mode, face_normals,
                   view_rotation, view_location>>

CURSOR_OT_rotate_axis(axis, direction) ==
    LET call == [name |-> "cursor.rotate_axis", axis |-> axis,
                 direction |-> direction]
        step_rad == get_step(props)
        delta == IF direction = "POS" THEN step_rad ELSE -step_rad
        rotated == rotate_euler(cursor.rotation_euler, axis, delta)
    IN  IF rotated.raised
        THEN Raised(call, {}, << >>)
        ELSE /\ Executed(call, "FINISHED", {}, << >>)
             /\ cursor' = [cursor EXCEPT !.rotation_euler = rotated.value]
             /\ UNCHANGED <<objects, selected, active, mode, face_normals,
                            view_rotation, view_location>>

CURSOR_OT_flip_axis(axis) ==
    /\ Executed([name |-> "cursor.flip_axis", axis |-> axis],
                "FINISHED", {}, << >>)
    /\ cursor' = [cursor EXCEPT !.rotation_euler[AxisIndex(axis)] = -@]
    /\ UNCHANGED <<objects, selected, active, mode, face_normals,
                   view_rotation, view_location>>

CURSOR_OT_copy_from_object ==
    LET call == [name |-> "cursor.copy_from_object"]
    IN  IF active = None
        THEN Cancelled(call)
        ELSE /\ Executed(call, "FINISHED", {}, << >>)
             /\ cursor' = copy_object_rotation_to_cursor(objects[active], cursor)
             /\ UNCHANGED <<objects, selected, active, mode, face_normals,
                            view_rotation, view_location>>

CURSOR_OT_apply_to_object ==
    LET call == [name |-> "cursor.apply_to_object"]
    IN  IF selected = {}
        THEN Cancelled(call)
        ELSE /\ Executed(call, "FINISHED", {}, << >>)
             /\ objects' = [o \in Objects |->
                              IF o \in selected
                              THEN apply_cursor_rotation_to_object(cursor,
                                                                   objects[o])
                              ELSE objects[o]]
             /\ UNCHANGED <<cursor, selected, active, mode, face_normals,
                            view_rotation, view_location>>

\* view_rotation is None when no VIEW_3D area has a WINDOW region whose data
\* gives a rotation
CURSOR_OT_align_to_view ==
    LET call == [name |-> "cursor.align_to_view"]
    IN  IF view_rotation = None
        THEN Cancelled(call)
        ELSE /\ Executed(call, "FINISHED", {}, << >>)
             /\ cursor' = [cursor EXCEPT
                             !.rotation_euler = to_euler(view_rotation)]
             /\ UNCHANGED <<objects, selected, active, mode, face_normals,
                            view_rotation, view_location>>

RECURSIVE SumSeq3(_)
SumSeq3(normals) ==
    IF normals = << >> THEN Zero3
    ELSE Add3(Head(normals), SumSeq3(Tail(normals)))

\* abs(normal_vec.dot(up_vec)) < 0.99 for the normalized sum n of the normals
NotParallelToUp(n) ==
    10000 * n[3] * n[3] < 9801 * (n[1] * n[1] + n[2] * n[2] + n[3] * n[3])

\* normal_vec.rotation_difference(up_vec).to_matrix().to_euler('XYZ'), for a
\* normal along an X or Y axis: the quarter turn that takes it to +Z
rotation_difference_to_up(n) ==
    CASE n[1] > 0 /\ n[2] = 0 /\ n[3] = 0 -> <<0, -(Pi \div 2), 0>>
      [] n[1] < 0 /\ n[2] = 0 /\ n[3] = 0 -> <<0, Pi \div 2, 0>>
      [] n[1] = 0 /\ n[2] > 0 /\ n[3] = 0 -> <<Pi \div 2, 0, 0>>
      [] n[1] = 0 /\ n[2] < 0 /\ n[3] = 0 -> <<-(Pi \div 2), 0, 0>>

\* lines 443-452: the Euler the operator assigns for a non-zero sum of
\* normals
align_to_surface_euler(avg_normal) ==
    IF NotParallelToUp(avg_normal)
    THEN rotation_difference_to_up(avg_normal)
    ELSE Zero3

CURSOR_OT_align_to_surface ==
    LET call == [name |-> "cursor.align_to_surface"]
        avg_normal == SumSeq3(face_normals)
    IN  IF mode # "EDIT_MESH"
        THEN Cancelled(call)
        ELSE IF ~BmeshHasFromMesh
        THEN Raised(call, {}, << >>)
        ELSE IF face_normals = << >>
        THEN Cancelled(call)
        ELSE IF avg_normal = Zero3
        THEN Cancelled(call)
        ELSE /\ Executed(call, "FINISHED", {}, << >>)
             /\ cursor' = [cursor EXCEPT !.rotation_euler =
                             align_to_surface_euler(avg_normal)]
             /\ UNCHANGED <<objects, selected, active, mode, face_normals,
                            view_rotation, view_location>>

Orientations == {"FRONT", "RIGHT", "TOP", "BACK", "LEFT", "BOTTOM"}

\* lines 481-492; 1.570796 and 3.141593 are pi/2 and pi to six decimals
PresetEuler(orientation) ==
    CASE orientation = "FRONT"  -> Zero3
      [] orientation = "RIGHT"  -> <<0, 0, -(Pi \div 2)>>
      [] orientation = "TOP"    -> <<Pi \div 2, 0, 0>>
      [] orientation = "BACK"   -> <<0, 0, Pi>>
      [] orientation = "LEFT"   -> <<0, 0, Pi \div 2>>
      [] orientation = "BOTTOM" -> <<-(Pi \div 2), 0, 0>>

CURSOR_OT_set_preset_orientation(orientation) ==
    /\ Executed([name |-> "cursor.set_preset_orientation",
                 orientation |-> orientation], "FINISHED", {}, << >>)
    /\ cursor' = [cursor EXCEPT !.rotation_euler = PresetEuler(orientation)]
    /\ UNCHANGED <<objects, selected, active, mode, face_normals,
                   view_rotation, view_location>>

CURSOR_OT_set_to_selection_center_of_active ==
    LET call == [name |-> "cursor.set_to_selection_center"]
    IN  IF selected = {}
        THEN Cancelled(call)
        ELSE /\ Executed(call, "FINISHED", {}, << >>)
             /\ cursor' = [cursor EXCEPT !.location =
                             IF active \in selected
                             THEN objects[active].location
                             ELSE objects[CHOOSE o \in selected : TRUE].location]
             /\ UNCHANGED <<objects, selected, active, mode, face_normals,
                            view_rotation, view_location>>

CURSOR_OT_set_to_selection_center ==
    LET call == [name |-> "cursor.set_to_selection_center"]
    IN  IF selected = {}
        THEN Cancelled(call)
        ELSE /\ Executed(call, "FINISHED", {}, << >>)
             /\ LET center == Sum3([o \in selected |-> objects[o].location],
                                   selected)
                    count == Cardinality(selected)
                IN  cursor' = [cursor EXCEPT !.location =
                                  <<center[1] \div count, center[2] \div count,
                                    center[3] \div count>>]
             /\ UNCHANGED <<objects, selected, active, mode, face_normals,
                            view_rotation, view_location>>

CURSOR_OT_set_to_view_center ==
    /\ Executed([name |-> "cursor.set_to_view_center"], "FINISHED", {}, << >>)
    /\ cursor' = [cursor EXCEPT !.location = Zero3]
    /\ UNCHANGED <<objects, selected, active, mode, face_normals,
                   view_rotation, view_location>>

OBJECT_OT_origin_to_cursor ==
    LET call == [name |-> "object.origin_to_cursor"]
        reports == IF is_machine_tools_available THEN {"INFO"} ELSE {}
    IN  IF selected = {}
        THEN Cancelled(call)
        ELSE IF mode = "EDIT_MESH"
        \* origin_set reports "Operation cannot be performed in edit mode"
        \* as an error, which bpy.ops raises as RuntimeError
        THEN Raised(call, reports, <<"object.origin_set">>)
        ELSE /\ Executed(call, "FINISHED", reports, <<"object.origin_set">>)
             /\ objects' = origin_set(objects, selected, cursor)
             /\ UNCHANGED <<cursor, selected, active, mode, face_normals,
                            view_rotation, view_location>>

OBJECT_OT_rotate_axis(axis, direction) ==
    LET call == [name |-> "object.rotate_axis_step", axis |-> axis,
                 direction |-> direction]
        step_rad == get_step(props)
        delta == IF direction = "POS" THEN step_rad ELSE -step_rad
    IN  IF selected = {}
        THEN Cancelled(call)
        ELSE /\ Executed(call, "FINISHED", {}, << >>)
             /\ objects' = [o \in Objects |->
                              IF o \in selected
                              THEN [objects[o] EXCEPT
                                      !.rotation_euler[AxisIndex(axis)] =
                                          @ + delta]
                              ELSE objects[o]]
             /\ UNCHANGED <<cursor, selected, active, mode, face_normals,
                            view_rotation, view_location>>

OBJECT_OT_reset_orientation_of_all ==
    LET call == [name |-> "object.reset_orientation"]
    IN  IF selected = {}
        THEN Cancelled(call)
        ELSE /\ Executed(call, "FINISHED", {}, << >>)
             /\ objects' = [o \in Objects |->
                              [objects[o] EXCEPT !.rotation_euler = Zero3]]
             /\ UNCHANGED <<cursor, selected, active, mode, face_normals,
                            view_rotation, view_location>>

OBJECT_OT_reset_orientation ==
    LET call == [name |-> "object.reset_orientation"]
    IN  IF selected = {}
        THEN Cancelled(call)
        ELSE /\ Executed(call, "FINISHED", {}, << >>)
             /\ objects' = [o \in Objects |->
                              IF o \in selected
                              THEN [objects[o] EXCEPT !.rotation_euler = Zero3]
                              ELSE objects[o]]
             /\ UNCHANGED <<cursor, selected, active, mode, face_normals,
                            view_rotation, view_location>>

\* in Edit Mode the host's snap operator moves the selected mesh elements,
\* which the model does not hold, and no object
OBJECT_OT_align_to_cursor(move_objects, use_rotation) ==
    LET call == [name |-> "object.align_to_cursor",
                 move_objects |-> move_objects, use_rotation |-> use_rotation]
        use_offset == ~move_objects
    IN  IF selected = {}
        THEN Cancelled(call)
        ELSE /\ Executed(call, "FINISHED", {},
                         <<"view3d.snap_selected_to_cursor">>)
             /\ objects' = IF mode = "EDIT_MESH"
                           THEN objects
                           ELSE snap_selected_to_cursor(objects, selected,
                                    cursor, use_offset, use_rotation)
             /\ UNCHANGED <<cursor, selected, active, mode, face_normals,
                            view_rotation, view_location>>

OBJECT_OT_snap_selected_to_cursor(use_offset) ==
    LET call == [name |-> "object.selected_to_cursor",
                 use_offset |-> use_offset]
    IN  IF selected = {}
        THEN Cancelled(call)
        ELSE /\ Executed(call, "FINISHED", {},
                         <<"view3d.snap_selected_to_cursor">>)
             /\ objects' = IF mode = "EDIT_MESH"
                           THEN objects
                           ELSE snap_selected_to_cursor(objects, selected,
                                    cursor, use_offset, FALSE)
             /\ UNCHANGED <<cursor, selected, active, mode, face_normals,
                            view_rotation, view_location>>

OBJECT_OT_align_objects_to_each_other ==
    LET call == [name |-> "object.align_objects_to_each_other"]
        others == selected \ {active}
    IN  IF active = None
        THEN Cancelled(call)
        ELSE IF others = {}
        THEN Cancelled(call)
        ELSE IF ~EulerHasToMatrix4x4
        \* the first turn of the loop raises before it writes anything
        THEN Raised(call, {}, << >>)
        ELSE /\ Executed(call, "FINISHED", {}, << >>)
             /\ objects' = [o \in Objects |->
                              IF o \in others
                              THEN [objects[o] EXCEPT !.rotation_euler =
                                      to_euler(objects[active].rotation_euler)]
                              ELSE objects[o]]
             /\ UNCHANGED <<cursor, selected, active, mode, face_normals,
                            view_rotation, view_location>>

\* With two or more objects selected the loop of lines 807-813 raises in its
\* first turn, before it writes a location: cursor_matrix[axis_idx][:3] is a
\* tuple (a slice of a mathutils.Vector is a tuple) and offset is a float,
\* and a tuple times a float is a TypeError.
OBJECT_OT_distribute_along_cursor(axis) ==
    LET call == [name |-> "object.distribute_along_cursor", axis |-> axis]
    IN  IF Cardinality(selected) < 2
        THEN Cancelled(call)
        ELSE Raised(call, {}, << >>)

OBJECT_OT_copy_cursor_location_unchecked ==
    /\ Executed([name |-> "object.copy_cursor_location"], "FINISHED", {}, << >>)
    /\ objects' = [o \in Objects |->
                     IF o \in selected
                     THEN [objects[o] EXCEPT !.location = cursor.location]
                     ELSE objects[o]]
    /\ UNCHANGED <<cursor, selected, active, mode, face_normals,
                   view_rotation, view_location>>

OBJECT_OT_copy_cursor_location ==
    LET call == [name |-> "object.copy_cursor_location"]
    IN  IF selected = {}
        THEN Cancelled(call)
        ELSE /\ Executed(call, "FINISHED", {}, << >>)
             /\ objects' = [o \in Objects |->
                              IF o \in selected
                              THEN [objects[o] EXCEPT
                                      !.location = cursor.location]
                              ELSE objects[o]]
             /\ UNCHANGED <<cursor, selected, active, mode, face_normals,
                            view_rotation, view_location>>

-----------------------------------------------------------------------------
(* SpecOps: the operators, on the scenes of a registered add-on *)

\* selected faces of the edit mesh: none, one face up, one face down, one
\* face along X, two opposite faces
FaceSelections ==
    {<< >>, << <<0, 0, 1>> >>, << <<0, 0, -1>> >>, << <<1, 0, 0>> >>,
     << <<0, 0, 1>>, <<0, 0, -1>> >>}

\* a 3D view looking along a turned direction
ViewEuler == <<Pi \div 3, 0, Pi \div 4>>

\* the point a 3D view that was panned away from the origin is centred on
ViewLocation == <<LocUnit, 2 * LocUnit, 0>>

\* The scenes SpecOps starts from.  The usual situation is Object Mode with
\* a 3D view open and Machine Tools absent, with every selection and active
\* object; Edit Mode (with every face selection), a missing 3D view and
\* Machine Tools are each drawn with nothing selected and with the Cube
\* selected and active.  The view is centred on ViewLocation, or on the
\* origin in the usual situation with nothing selected.
InitOps ==
    /\ registered_classes = classes
    /\ scene_prop = TRUE
    /\ props \in {PropertyDefaults,
                  [PropertyDefaults EXCEPT !.rotation_step = "CUSTOM"]}
    /\ machine_tools_enabled \in BOOLEAN
    /\ cursor_pie_registered = FALSE
    /\ cursor_pie_draw = MachineToolsDraw
    /\ cursor_pie_original = Absent
    /\ snap_draw_funcs = IF machine_tools_enabled THEN 0 ELSE 1
    /\ kc_addon = TRUE
    /\ keymap_items = << >>
    /\ kmi_id = 0
    /\ addon_keymaps = << >>
    /\ integrations = 0
    /\ restores = 0
    /\ calls = 0
    /\ last_call = NoCall
    /\ result = NoResult
    /\ cursor \in {[location |-> Zero3, rotation_euler |-> Zero3],
                   [location |-> <<2 * LocUnit, 0, -LocUnit>>,
                    rotation_euler |-> <<Pi \div 6, Pi, -(Pi \div 2)>>]}
    /\ objects = [o \in Objects |->
                    IF o = "Cube"
                    THEN [location |-> Zero3,
                          rotation_euler |-> <<0, 0, 3 * Pi>>]
                    ELSE [location |-> <<4 * LocUnit, 2 * LocUnit, 6 * LocUnit>>,
                          rotation_euler |-> <<Pi \div 4, -(Pi \div 3), 0>>]]
    /\ selected \in SUBSET Objects
    /\ active \in Objects \cup {None}
    /\ mode \in {"OBJECT", "EDIT_MESH"}
    /\ face_normals \in IF mode = "EDIT_MESH" THEN FaceSelections ELSE {<< >>}
    /\ view_rotation \in {None, ViewEuler}
    /\ view_location \in IF view_rotation = None
                        THEN {None}
                        ELSE {ViewLocation, Zero3}
    /\ LET unusual == {x \in {"mode", "view", "machine_tools"} :
                         \/ x = "mode" /\ mode = "EDIT_MESH"
                         \/ x = "view" /\ view_rotation = None
                         \/ x = "machine_tools" /\ machine_tools_enabled}
       IN  /\ Cardinality(unusual) <= 1
           /\ unusual # {} =>
                 \/ selected = {} /\ active = None
                 \/ selected = {"Cube"} /\ active = "Cube"
           /\ (view_rotation # None /\ view_location = Zero3) =>
                 unusual = {} /\ selected = {} /\ active = None

NextOps ==
    \/ CURSOR_OT_reset_orientation
    \/ \E axis \in Axes, direction \in Directions :
           CURSOR_OT_rotate_axis(axis, direction)
    \/ \E axis \in Axes : CURSOR_OT_flip_axis(axis)
    \/ CURSOR_OT_copy_from_object
    \/ CURSOR_OT_apply_to_object
    \/ CURSOR_OT_align_to_view
    \/ CURSOR_OT_align_to_surface
    \/ \E orientation \in Orientations :
           CURSOR_OT_set_preset_orientation(orientation)
    \/ CURSOR_OT_set_to_selection_center
    \/ CURSOR_OT_set_to_view_center
    \/ OBJECT_OT_origin_to_cursor
    \/ \E axis \in Axes, direction \in Directions :
           OBJECT_OT_rotate_axis(axis, direction)
    \/ OBJECT_OT_reset_orientation
    \/ \E move_objects \in BOOLEAN, use_rotation \in BOOLEAN :
           OBJECT_OT_align_to_cursor(move_objects, use_rotation)
    \/ \E use_offset \in BOOLEAN : OBJECT_OT_snap_selected_to_cursor(use_offset)
    \/ OBJECT_OT_align_objects_to_each_other
    \/ \E axis \in Axes : OBJECT_OT_distribute_along_cursor(axis)
    \/ OBJECT_OT_copy_cursor_location

SpecOps == InitOps /\ [][NextOps]_vars

-----------------------------------------------------------------------------
(* Claims about registration *)

\* C3: once unregister() has run after register(), nothing of the add-on is
\* left: no keymap item it created is in the host keymap, addon_keymaps is
\* empty, draw_snap_menu is not in the snap menu's draw list, the Scene
\* property is removed and no class of `classes` is registered.
C3_UnregisterCleansUp ==
    last_call.name = "unregister" =>
        /\ keymap_items = << >>
        /\ addon_keymaps = << >>
        /\ snap_draw_funcs = 0
        /\ ~scene_prop
        /\ registered_classes = {}

\* unregister() has run after a register() that created a keymap item
C3_Witness ==
    /\ last_call.name = "unregister"
    /\ kmi_id >= 1
    /\ props.use_pie_menu
    /\ props.pie_menu_key = "CTRL"

C5_SnapMenuFollowsMachineTools ==
    Registered => (draw_snap_menu <=> ~is_machine_tools_available)

\* C6: the add-on's entries are in the snap menu only while use_snap_menu is
\* enabled.
C6_SnapMenuFollowsSetting ==
    Registered => (draw_snap_menu => props.use_snap_menu)

\* C7: while the add-on is registered (and the host has an add-on key
\* configuration), a pie menu key binding exists exactly when use_pie_menu
\* is enabled and pie_menu_key is not NONE, and its modifier is the one
\* chosen in pie_menu_key.
C7_PieHotkeyFollowsPreferences ==
    (Registered /\ kc_addon) =>
        /\ (PieBindings # {}) <=>
               (props.use_pie_menu /\ props.pie_menu_key # "NONE")
        /\ \A i \in PieBindings :
               /\ keymap_items[i].shift <=> (props.pie_menu_key = "SHIFT")
               /\ keymap_items[i].ctrl <=> (props.pie_menu_key = "CTRL")
               /\ keymap_items[i].alt <=> (props.pie_menu_key = "ALT")

-----------------------------------------------------------------------------
(* Claims about the operators *)

SelectionOperators ==
    {"cursor.apply_to_object", "cursor.set_to_selection_center",
     "object.origin_to_cursor", "object.rotate_axis_step",
     "object.reset_orientation", "object.align_to_cursor",
     "object.selected_to_cursor", "object.copy_cursor_location"}

\* C1: each of the eight operators that need selected objects, executed
\* with nothing selected, reports a WARNING, returns CANCELLED, calls no host
\* operator and leaves the cursor and every object as they were.
C1_EmptySelectionCancels ==
    [][(/\ calls' = calls + 1
        /\ last_call'.name \in SelectionOperators
        /\ selected = {})
       => (/\ result'.ret = "CANCELLED"
           /\ result'.reports = {"WARNING"}
           /\ result'.host_ops = << >>
           /\ cursor' = cursor
           /\ objects' = objects)]_vars

\* object.copy_cursor_location was cancelled for want of a selection, after
\* an earlier operator had moved the cursor away from the objects
C1_Witness ==
    /\ last_call.name = "object.copy_cursor_location"
    /\ result.ret = "CANCELLED"
    /\ selected = {}
    /\ calls = 2
    /\ \A o \in Objects : objects[o].location # cursor.location

\* the operator `name` is executed without the context it needs
MissingContext(name) ==
    \/ name = "cursor.copy_from_object" /\ active = None
    \/ /\ name = "cursor.align_to_surface"
       /\ \/ mode # "EDIT_MESH"
          \/ face_normals = << >>
          \/ SumSeq3(face_normals) = Zero3
    \/ name = "cursor.align_to_view" /\ view_rotation = None
    \/ /\ name = "object.align_objects_to_each_other"
       /\ (active = None \/ selected \ {active} = {})
    \/ name = "object.distribute_along_cursor" /\ Cardinality(selected) < 2

\* C2: an operator executed without the context it needs reports a WARNING,
\* returns CANCELLED and leaves the cursor and all objects unchanged.
C2_MissingContextCancels ==
    [][(calls' = calls + 1 /\ MissingContext(last_call'.name))
       => (/\ result'.ret = "CANCELLED"
           /\ result'.reports = {"WARNING"}
           /\ cursor' = cursor
           /\ objects' = objects)]_vars

\* C9: cursor.rotate_axis finishes with the configured step added to
\* (POS) or subtracted from (NEG) the chosen Euler axis of the cursor, modulo
\* a full turn, the two other Euler components and the cursor location
\* unchanged.
C9_RotateAxisAddsStep ==
    [][(calls' = calls + 1 /\ last_call'.name = "cursor.rotate_axis")
       => LET i == AxisIndex(last_call'.axis)
              step_rad == get_step(props)
              delta == IF last_call'.direction = "POS"
                       THEN step_rad ELSE -step_rad
          IN  /\ result'.ret = "FINISHED"
              /\ (cursor'.rotation_euler[i]
                    - cursor.rotation_euler[i] - delta) % (2 * Pi) = 0
              /\ \A j \in (1..3) \ {i} :
                    cursor'.rotation_euler[j] = cursor.rotation_euler[j]
              /\ cursor'.location = cursor.location]_vars

\* C10: for the cursor's Euler, every axis and the step in either direction,
\* rotate_euler returns an Euler whose every component lies within [-pi, pi].
C10_RotateEulerInRange ==
    \A axis \in Axes, direction \in Directions :
        LET step_rad == get_step(props)
            delta == IF direction = "POS" THEN step_rad ELSE -step_rad
            new_eul == rotate_euler(cursor.rotation_euler, axis, delta)
        IN  /\ ~new_eul.raised
            /\ \A i \in 1..3 : -Pi <= new_eul.value[i] /\ new_eul.value[i] <= Pi

\* C11: cursor.reset_orientation, from any state, returns FINISHED with the
\* cursor rotation (0,0,0), the cursor location and all objects as they
\* were; called on a cursor whose rotation is already (0,0,0), as after a
\* first call, it changes nothing of the scene.
C11_ResetOrientation ==
    [][(calls' = calls + 1 /\ last_call'.name = "cursor.reset_orientation")
       => (/\ result'.ret = "FINISHED"
           /\ cursor'.rotation_euler = Zero3
           /\ cursor'.location = cursor.location
           /\ objects' = objects
           /\ (cursor.rotation_euler = Zero3 => cursor' = cursor))]_vars

\* the reset acted on a cursor that was turned and stood away from the origin
C11_Witness ==
    /\ calls = 1
    /\ last_call.name = "cursor.reset_orientation"
    /\ result.ret = "FINISHED"
    /\ cursor.rotation_euler = Zero3
    /\ cursor.location = <<2 * LocUnit, 0, -LocUnit>>

\* C12: cursor.set_to_selection_center with a non-empty selection puts the
\* cursor at the component-wise mean of the selected objects' locations (one
\* object selected: at that object's location) and leaves the cursor
\* rotation and every object unchanged.
C12_SelectionCenterIsMean ==
    [][(/\ calls' = calls + 1
        /\ last_call'.name = "cursor.set_to_selection_center"
        /\ selected # {})
       => (/\ result'.ret = "FINISHED"
           /\ \A o \in Objects :
                 selected = {o} => cursor'.location = objects[o].location
           /\ selected = Objects =>
                 \A i \in 1..3 :
                    2 * cursor'.location[i] =
                       objects["Cube"].location[i] + objects["Lamp"].location[i]
           /\ cursor'.rotation_euler = cursor.rotation_euler
           /\ objects' = objects)]_vars

\* the cursor stands midway between the two selected objects
C12_Witness ==
    /\ last_call.name = "cursor.set_to_selection_center"
    /\ result.ret = "FINISHED"
    /\ selected = Objects
    /\ objects["Cube"].location = Zero3
    /\ cursor.location = <<2 * LocUnit, LocUnit, 3 * LocUnit>>

\* C13: in every reachable state the step of the rotate operators is above
\* zero and at most a full turn: with rotation_step CUSTOM it is the custom
\* angle, which lies within 0.1..360 degrees, otherwise exactly the preset of
\* 90, 45, 30 or 15 degrees; and a change of custom_step while a preset is
\* selected leaves the step as it was.
C13_StepWithinRange ==
    /\ [](LET step_rad == get_step(props)
          IN  /\ 0 < step_rad /\ step_rad <= 2 * Pi
              /\ props.rotation_step = "CUSTOM" =>
                    /\ custom_step_min <= props.custom_step
                    /\ props.custom_step <= custom_step_max
                    /\ 1800 * step_rad = Pi * props.custom_step
              /\ props.rotation_step = "90" => 2 * step_rad = Pi
              /\ props.rotation_step = "45" => 4 * step_rad = Pi
              /\ props.rotation_step = "30" => 6 * step_rad = Pi
              /\ props.rotation_step = "15" => 12 * step_rad = Pi)
    /\ [][(/\ props.rotation_step # "CUSTOM"
            /\ props'.rotation_step = props.rotation_step
            /\ props'.custom_step # props.custom_step)
           => get_step(props') = get_step(props)]_vars

\* a preset is selected while the custom angle stands at the top of its
\* range
C13_Witness ==
    /\ Registered
    /\ props.rotation_step = "15"
    /\ props.custom_step = custom_step_max
    /\ get_step(props) = Pi \div 12

\* C14: after cursor.set_to_view_center the cursor stands at the point the
\* 3D view is centred on, wherever the view is.
C14_CursorAtViewCenter ==
    [][(/\ calls' = calls + 1
        /\ last_call'.name = "cursor.set_to_view_center"
        /\ view_location # None)
       => (/\ result'.ret = "FINISHED"
           /\ cursor'.location = view_location)]_vars

\* cosine and sine of a whole number of quarter turns
cos_quarter(a) ==
    LET k == (a \div (Pi \div 2)) % 4
    IN  CASE k = 0 -> 1 [] k = 1 -> 0 [] k = 2 -> -1 [] k = 3 -> 0

sin_quarter(a) ==
    LET k == (a \div (Pi \div 2)) % 4
    IN  CASE k = 0 -> 0 [] k = 1 -> 1 [] k = 2 -> 0 [] k = 3 -> -1

\* where the rotation of an XYZ Euler of quarter turns takes the Z axis:
\* Rz(z) Ry(y) Rx(x) applied to (0, 0, 1)
LocalZ(euler) ==
    LET rx == <<0, -sin_quarter(euler[1]), cos_quarter(euler[1])>>
        ry == <<rx[1] * cos_quarter(euler[2]) + rx[3] * sin_quarter(euler[2]),
                rx[2],
                rx[3] * cos_quarter(euler[2]) - rx[1] * sin_quarter(euler[2])>>
    IN  <<ry[1] * cos_quarter(euler[3]) - ry[2] * sin_quarter(euler[3]),
          ry[1] * sin_quarter(euler[3]) + ry[2] * cos_quarter(euler[3]),
          ry[3]>>

\* C15: for selected faces whose normals sum to a unit vector along an
\* axis (straight up, straight down, along X or Y), the rotation
\* cursor.align_to_surface computes turns the cursor's local Z axis onto
\* that normal.
C15_LocalZAlongNormal ==
    LET avg_normal == SumSeq3(face_normals)
    IN  (/\ mode = "EDIT_MESH"
         /\ face_normals # << >>
         /\ avg_normal # Zero3)
        => LocalZ(align_to_surface_euler(avg_normal)) = avg_normal

-----------------------------------------------------------------------------
(* The rotation buttons of the panel and the menus.  layout.operator()      *)
(* returns the properties of the button it has just made, so each           *)
(* "row.operator(...).axis = 'X'" makes one button and sets one property    *)
(* of it; a property that is not set keeps the operator's default.          *)

\* defaults of axis and direction, lines 289-300 and 572-583
rotate_axis_defaults == [axis |-> "Z", direction |-> "POS"]

\* a button: the operator, the label, and the properties the code sets
Button(idname, text, assigned) ==
    [idname |-> idname, text |-> text, assigned |-> assigned]

\* one row of the sidebar panel, lines 873-876 (877-884 and 915-926 alike)
panel_row(idname, axis, plus, minus) ==
    <<Button(idname, plus, [axis |-> axis]),
      Button(idname, minus, [axis |-> axis]),
      Button(idname, minus, [direction |-> "NEG"])>>

\* one row of a menu, lines 973-979 (980-995 and 1085-1107 alike)
menu_row(idname, axis, plus, minus) ==
    <<Button(idname, plus, [axis |-> axis, direction |-> "POS"]),
      Button(idname, minus, [axis |-> axis, direction |-> "NEG"])>>

\* VIEW3D_PT_cursor_align.draw: the rows of lines 873-884 and 915-926
panel_rows ==
    <<panel_row("cursor.rotate_axis", "X", "+X", "-X"),
      panel_row("cursor.rotate_axis", "Y", "+Y", "-Y"),
      panel_row("cursor.rotate_axis", "Z", "+Z", "-Z"),
      panel_row("object.rotate_axis_step", "X", "+X", "-X"),
      panel_row("object.rotate_axis_step", "Y", "+Y", "-Y"),
      panel_row("object.rotate_axis_step", "Z", "+Z", "-Z")>>

\* draw_snap_menu: the rows of lines 973-995
snap_menu_rows ==
    <<menu_row("cursor.rotate_axis", "X", "+X", "-X"),
      menu_row("cursor.rotate_axis", "Y", "+Y", "-Y"),
      menu_row("cursor.rotate_axis", "Z", "+Z", "-Z")>>

\* VIEW3D_MT_cursor_align_machine_tools.draw: the rows of lines 1085-1107
machine_tools_menu_rows ==
    <<menu_row("cursor.rotate_axis", "X", "+X", "-X"),
      menu_row("cursor.rotate_axis", "Y", "+Y", "-Y"),
      menu_row("cursor.rotate_axis", "Z", "+Z", "-Z")>>

\* the property values the operator of a button is invoked with
button_properties(b) ==
    [axis |-> IF "axis" \in DOMAIN b.assigned
              THEN b.assigned.axis ELSE rotate_axis_defaults.axis,
     direction |-> IF "direction" \in DOMAIN b.assigned
                   THEN b.assigned.direction
                   ELSE rotate_axis_defaults.direction]

\* the user clicks a button: its operator runs with the button's properties
click(b) ==
    IF b.idname = "cursor.rotate_axis"
    THEN CURSOR_OT_rotate_axis(button_properties(b).axis,
                               button_properties(b).direction)
    ELSE OBJECT_OT_rotate_axis(button_properties(b).axis,
                               button_properties(b).direction)

panel_click(r, i) == click(panel_rows[r][i])

\* the add-on's part of the Shift+S menu is drawn only while draw_snap_menu
\* is attached and Machine Tools is absent
snap_menu_click(r, i) ==
    /\ draw_snap_menu
    /\ click(snap_menu_rows[r][i])

\* the menu that cursor.machine_tools_menu opens
machine_tools_menu_click(r, i) == click(machine_tools_menu_rows[r][i])

NextUI ==
    \/ \E r \in DOMAIN panel_rows, i \in 1..3 : panel_click(r, i)
    \/ \E r \in DOMAIN snap_menu_rows, i \in 1..2 : snap_menu_click(r, i)
    \/ \E r \in DOMAIN machine_tools_menu_rows, i \in 1..2 :
           machine_tools_menu_click(r, i)

SpecUI == InitOps /\ [][NextUI]_vars

\* the label of the button for a direction and an axis
rotation_label(direction, axis) ==
    CASE direction = "POS" /\ axis = "X" -> "+X"
      [] direction = "POS" /\ axis = "Y" -> "+Y"
      [] direction = "POS" /\ axis = "Z" -> "+Z"
      [] direction = "NEG" /\ axis = "X" -> "-X"
      [] direction = "NEG" /\ axis = "Y" -> "-Y"
      [] direction = "NEG" /\ axis = "Z" -> "-Z"

\* the step made is an invocation with the axis and direction of b's label
does_what_label_says(b) ==
    \A direction \in Directions, axis \in Axes :
        b.text = rotation_label(direction, axis)
        => (/\ last_call'.name = b.idname
            /\ last_call'.axis = axis
            /\ last_call'.direction = direction)

\* the row holds one button of every label of its axis, and no other
one_plus_one_minus(row) ==
    \E axis \in Axes :
        /\ \A i \in DOMAIN row :
              row[i].text \in {rotation_label("POS", axis),
                               rotation_label("NEG", axis)}
        /\ \A direction \in Directions :
              Cardinality({i \in DOMAIN row :
                  row[i].text = rotation_label(direction, axis)}) = 1

\* C16: a click on a rotation button of the sidebar panel invokes the
\* rotate operator with the axis and the direction its label names, and
\* every rotation row of the panel holds exactly one "+A" and one "-A"
\* button.
C16_PanelButtonsMatchLabels ==
    [][/\ \A r \in DOMAIN panel_rows, i \in 1..3 :
             panel_click(r, i) => does_what_label_says(panel_rows[r][i])
       /\ \A r \in DOMAIN panel_rows : one_plus_one_minus(panel_rows[r])]_vars

\* the same for the snap menu and the Machine Tools menu, which the claim
\* names as the pattern the panel should follow
MenuButtonsMatchLabels ==
    [][/\ \A r \in DOMAIN snap_menu_rows, i \in 1..2 :
             snap_menu_click(r, i) => does_what_label_says(snap_menu_rows[r][i])
       /\ \A r \in DOMAIN machine_tools_menu_rows, i \in 1..2 :
             machine_tools_menu_click(r, i)
             => does_what_label_says(machine_tools_menu_rows[r][i])
       /\ \A r \in DOMAIN snap_menu_rows :
             /\ one_plus_one_minus(snap_menu_rows[r])
             /\ one_plus_one_minus(machine_tools_menu_rows[r])]_vars

-----------------------------------------------------------------------------
(* Claims about all operators *)

\* C17: every execution of an operator ends with FINISHED or CANCELLED.
C17_ReturnsFinishedOrCancelled ==
    calls > 0 => result.ret \in {"FINISHED", "CANCELLED"}

CursorOrientationOperators ==
    {"cursor.reset_orientation", "cursor.rotate_axis", "cursor.flip_axis",
     "cursor.copy_from_object", "cursor.align_to_view",
     "cursor.align_to_surface", "cursor.set_preset_orientation"}

CursorLocationOperators ==
    {"cursor.set_to_selection_center", "cursor.set_to_view_center"}

SelectedObjectOperators ==
    {"object.rotate_axis_step", "object.reset_orientation",
     "object.copy_cursor_location"}

\* C18: at every step of every run, a cursor-orientation operator changes
\* nothing but the cursor's rotation; set_to_selection_center and
\* set_to_view_center change nothing but the cursor's location;
\* object.rotate_axis_step, object.reset_orientation and
\* object.copy_cursor_location change only selected objects and never the
\* cursor; and no operator changes a setting of the scene.
C18_OperatorsChangeOnlyWhatTheyName ==
    [][calls' = calls + 1
       => (/\ props' = props
           /\ last_call'.name \in CursorOrientationOperators
              => (/\ cursor'.location = cursor.location
                  /\ UNCHANGED <<objects, selected, active, mode>>)
           /\ last_call'.name \in CursorLocationOperators
              => (/\ cursor'.rotation_euler = cursor.rotation_euler
                  /\ UNCHANGED <<objects, selected, active, mode>>)
           /\ last_call'.name \in SelectedObjectOperators
              => (/\ cursor' = cursor
                  /\ \A o \in Objects \ selected : objects'[o] = objects[o]
                  /\ UNCHANGED <<selected, active, mode>>))]_vars

\* second operator of a run: object.reset_orientation has reset the selected
\* Cube and left the turned Lamp and the cursor, as the first operator left
\* it, untouched
C18_Witness ==
    /\ calls = 2
    /\ last_call.name = "object.reset_orientation"
    /\ result.ret = "FINISHED"
    /\ selected = {"Cube"}
    /\ objects["Cube"].rotation_euler = Zero3
    /\ objects["Lamp"].rotation_euler = <<Pi \div 4, -(Pi \div 3), 0>>
    /\ cursor.location = objects["Cube"].location
    /\ cursor.rotation_euler # Zero3

====
